---------------------------- MODULE Spec2Model ----------------------------
(***************************************************************************)
(* Model of the streaming reply updater of app/slack_ops.py:               *)
(*   split_long_message  (the chunker, a pure function),                   *)
(*   _chunk_messages_cache, _cleanup_cache (the registry),                 *)
(*   post_wip_message, update_wip_message (the updater).                   *)
(*                                                                         *)
(* A text is a sequence of symbols.  Every symbol is a one-character       *)
(* string; Width gives the number of bytes of its UTF-8 encoding.  The     *)
(* emoji shortcodes ":hourglass_flowing_sand:" and ":wave:" and the word   *)
(* "Processing..." are single symbols (they hold no space, newline or      *)
(* backtick, so the chunker never looks inside them).                      *)
(***************************************************************************)
EXTENDS Integers, Sequences, FiniteSets, TLC

(***************************************************************************)
(* Symbols                                                                 *)
(***************************************************************************)
NL == "\n"
SP == " "
TICK == "~"            \* the backtick
HOURGLASS == "H"       \* ":hourglass_flowing_sand:"
WAVE == "W"            \* ":wave:"
PROCESSING == "P"      \* "Processing..."
WIDE == "U"            \* a character whose UTF-8 encoding takes three bytes

Width(c) == IF c = WIDE THEN 3 ELSE 1

(***************************************************************************)
(* Python string helpers                                                   *)
(***************************************************************************)
RECURSIVE ByteLen(_)
\* len(s.encode("utf-8"))
ByteLen(s) == IF s = <<>> THEN 0 ELSE Width(Head(s)) + ByteLen(Tail(s))

\* c in s, for a one-character c
Contains(s, c) == \E i \in 1..Len(s) : s[i] = c

\* code_block_delimiter in line
HasFence(line) ==
    \E i \in 1..(Len(line) - 2) :
        line[i] = TICK /\ line[i + 1] = TICK /\ line[i + 2] = TICK

RECURSIVE StrSplit(_, _)
\* s.split(sep), for a one-character sep: always at least one piece
StrSplit(s, sep) ==
    IF ~Contains(s, sep) THEN <<s>>
    ELSE LET i == CHOOSE j \in 1..Len(s) :
                      s[j] = sep /\ \A k \in 1..(j - 1) : s[k] # sep
         IN  <<SubSeq(s, 1, i - 1)>> \o StrSplit(SubSeq(s, i + 1, Len(s)), sep)

\* s.strip() == "" : only whitespace
IsBlank(s) == \A i \in 1..Len(s) : s[i] \in {SP, NL}

\* s.endswith(<<c>>)
EndsWith(s, c) == Len(s) > 0 /\ s[Len(s)] = c

Last(s) == s[Len(s)]

Min(a, b) == IF a < b THEN a ELSE b

(***************************************************************************)
(* split_long_message                                                      *)
(***************************************************************************)
FENCE == <<TICK, TICK, TICK>>

\* What the model returns where the code does not return.
DIVERGES == <<"diverges">>

RECURSIVE WordLines(_, _, _, _)
\* lines 174-183: pack the words into lines of at most max_length bytes
WordLines(words, current_line, lines, max_length) ==
    IF words = <<>>
    THEN IF current_line # <<>> THEN Append(lines, current_line) ELSE lines
    ELSE LET word == Head(words)
             test_line == IF current_line # <<>>
                          THEN current_line \o <<SP>> \o word
                          ELSE word
         IN  IF ByteLen(test_line) <= max_length
             THEN WordLines(Tail(words), test_line, lines, max_length)
             ELSE WordLines(Tail(words), word,
                            IF current_line # <<>>
                            THEN Append(lines, current_line) ELSE lines,
                            max_length)

\* text.encode("utf-8"): one record per byte, naming the symbol it belongs to
\* and whether it is the last byte of that symbol
RECURSIVE Encode(_, _)
Encode(s, i) ==
    IF i > Len(s) THEN <<>>
    ELSE [b \in 1..Width(s[i]) |-> [sym |-> i, last |-> (b = Width(s[i]))]]
         \o Encode(s, i + 1)

\* text_bytes[start:end].decode("utf-8") raises no UnicodeDecodeError: start is
\* a symbol boundary (0 or an earlier end), so the slice decodes iff end is one
Decodes(text_bytes, start, end) == end <= start \/ text_bytes[end].last

\* the symbols of text_bytes[start:end].decode("utf-8"), when it decodes
Decode(text, text_bytes, start, end) ==
    IF end <= start THEN <<>>
    ELSE SubSeq(text, text_bytes[start + 1].sym, text_bytes[end].sym)

RECURSIVE Probe(_, _, _)
\* lines 193-200: step end down to the first value that decodes; the loop is
\* left with end = start when there is none
Probe(text_bytes, start, end) ==
    IF end <= start THEN start
    ELSE IF Decodes(text_bytes, start, end) THEN end
         ELSE Probe(text_bytes, start, end - 1)

RECURSIVE ByteLines(_, _, _, _)
\* lines 186-200: cut the bytes into lines of at most max_length - 6 bytes.
\* When the probe finds no end above start, start never moves and the outer
\* loop never ends: DIVERGES.
ByteLines(text, text_bytes, start, max_length) ==
    IF ~(start < Len(text_bytes)) THEN <<>>
    ELSE LET end == Probe(text_bytes, start,
                          Min(start + max_length - 6, Len(text_bytes)))
         IN  IF end <= start THEN DIVERGES
             ELSE LET rest == ByteLines(text, text_bytes, end, max_length)
                  IN  IF rest = DIVERGES THEN DIVERGES
                      ELSE <<Decode(text, text_bytes, start, end)>> \o rest

\* a slip: a text without line breaks is always cut by bytes
SplitLinesByBytes(text, max_length) ==
    IF Contains(text, NL) THEN StrSplit(text, NL)
    ELSE ByteLines(text, Encode(text, 1), 0, max_length)

\* lines 166-200: the units the text is cut into
SplitLines(text, max_length) ==
    IF Contains(text, NL) THEN StrSplit(text, NL)
    ELSE IF Contains(text, SP)
         THEN WordLines(StrSplit(text, SP), <<>>, <<>>, max_length)
         ELSE ByteLines(text, Encode(text, 1), 0, max_length)

RECURSIVE PackLines(_, _, _, _, _, _)
\* lines 202-229: the loop over the lines, from line i (0-based) on
PackLines(lines, i, chunks, current_chunk, in_code_block, max_length) ==
    IF i >= Len(lines)
    THEN \* lines 232-233
         IF current_chunk # <<>> THEN Append(chunks, current_chunk) ELSE chunks
    ELSE LET line == lines[i + 1]
             in_code == IF HasFence(line) THEN ~in_code_block ELSE in_code_block
             separator == IF current_chunk # <<>> /\ i > 0 THEN <<NL>> ELSE <<>>
             test_chunk == current_chunk \o separator \o line
         IN  IF ByteLen(test_chunk) > max_length /\ current_chunk # <<>>
             THEN LET closed == IF in_code
                                THEN current_chunk \o <<NL>> \o FENCE
                                ELSE current_chunk
                      opened == IF in_code
                                THEN FENCE \o <<NL>> \o line
                                ELSE line
                  IN  PackLines(lines, i + 1, Append(chunks, closed), opened,
                                in_code, max_length)
             ELSE PackLines(lines, i + 1, chunks, test_chunk, in_code,
                            max_length)

\* a slip: the lines 155-156 left out
split_long_messageAlways(text, max_length) ==
    LET lines == SplitLines(text, max_length)
    IN  IF lines = DIVERGES THEN DIVERGES
        ELSE PackLines(lines, 0, <<>>, <<>>, FALSE, max_length)

\* def split_long_message(text, max_length): the list of chunks
split_long_message(text, max_length) ==
    IF ByteLen(text) <= max_length THEN <<text>>
    ELSE LET lines == SplitLines(text, max_length)
         IN  IF lines = DIVERGES THEN DIVERGES
             ELSE PackLines(lines, 0, <<>>, <<>>, FALSE, max_length)

(***************************************************************************)
(* Bounds of the model                                                     *)
(***************************************************************************)
\* update_wip_message calls split_long_message(text) with the default
\* max_length of 4000 bytes; the model scales it down.  It stays above 6, as
\* 4000 does, so that the byte splitting of lines 185-200 advances.
MaxLength == 7
\* message ids (Slack ts values) 1..MaxTs; id 1 is a message of a user
MaxTs == 4
\* the scaled _CACHE_MAX_SIZE (100 in the code)
CACHE_MAX_SIZE == 2
\* the clock advances while it is below MaxTime, in steps of TickStep seconds
\* (more than the 30 seconds of line 310, less than the TTL) or of LongStep
\* seconds (more than the TTL)
TickStep == 200
\* and, where the 30 seconds matter, in steps of ShortStep seconds (less than
\* 30) while it is below ShortTime
ShortStep == 20
ShortTime == 60
LongStep == 400
MaxTime == 400
\* the texts given to split_long_message alone are made of at most MaxTokens
\* pieces
MaxTokens == 5

\* _CACHE_TTL_SECONDS, and the 30 seconds of line 310
CACHE_TTL_SECONDS == 300
GRACE_SECONDS == 30

Threads == {1, 2}
Ids == 1..MaxTs
USER_TS == 1
\* entry objects: one per key in the registry and two per thread at most
Objs == 1..(MaxTs + 2 * Cardinality(Threads))
\* a message that is not posted, and an entry object that is not in use
NOMSG == <<"none">>
FREE == [timestamps |-> <<>>, last_updated |-> 0, locked |-> FALSE]
CHANNEL == "C"

\* line 249: ":hourglass_flowing_sand: Processing..."
PLACEHOLDER == <<HOURGLASS, SP, PROCESSING>>
\* the loading_text the callers pass to post_wip_message
LOADING_TEXT == <<HOURGLASS>>

A4 == <<"a", "a", "a", "a">>
B4 == <<"b", "b", "b", "b">>
\* texts of one, two and three chunks, each a prefix of the next
T1 == A4
T2 == A4 \o <<SP>> \o B4
T3 == A4 \o <<SP>> \o B4 \o <<SP>> \o A4
\* the texts the callers stream, in the concurrent and the sequential runs
ConcTexts == {T2}
SeqTexts == {<<>>, <<SP>>, <<"a", HOURGLASS>>, T2, T3}
GrowTexts == {T1, T2, T3}
\* the messages the callers name in their calls: the message of the user and
\* the first placeholders
ConcTss == {USER_TS, USER_TS + 1}
SeqTss == {USER_TS, USER_TS + 1}
\* the runs that fill the registry: every message, texts of one and two chunks
LruTss == Ids
\* the runs of texts within the byte cap: the empty text, a loading text and
\* two completed texts
ShortTexts == {<<>>, <<"a", HOURGLASS>>, T1, B4}
\* the runs of two conversations: texts of one and two chunks
PairTexts == {T1, T2}
\* the runs around the end of a reply: a completed text of one chunk and of two
\* chunks, and a text that ends with the loading indicator
GraceTexts == {T1, T2, <<"a", HOURGLASS>>}
LruTexts == {T1, T2}

(***************************************************************************)
(* State                                                                   *)
(***************************************************************************)
VARIABLES
    now,        \* time.time()
    slack,      \* the Slack channel: message id -> text shown, NOMSG if not posted
    nextTs,     \* the id Slack gives the next posted message
    wips,       \* ids of the placeholders post_wip_message has returned
    cache,      \* _chunk_messages_cache: sequence of <<key, entry object>>
    heap,       \* entry object -> [timestamps, last_updated, locked], FREE if free
    pc,         \* thread -> the line it is about to run
    loc,        \* thread -> its arguments and local variables
    finalized   \* history: ids that have been a non-last element of a list

vars == <<now, slack, nextTs, wips, cache, heap, pc, loc, finalized>>

\* cache_key = (channel, thread_ts)
cache_key(channel, thread_ts) == <<channel, thread_ts>>

\* OrderedDict operations on the sequence of <<key, entry object>>
Keys(c) == {c[i][1] : i \in 1..Len(c)}
Obj(c, k) == c[CHOOSE i \in 1..Len(c) : c[i][1] = k][2]
Del(c, k) == SelectSeq(c, LAMBDA e : e[1] # k)
\* a slip: move_to_end left out, the key stays where it is
MoveToEndLeftOut(c, k) == c
MoveToEnd(c, k) == Del(c, k) \o << <<k, Obj(c, k)>> >>
Put(c, k, o) ==
    IF k \in Keys(c)
    THEN [i \in 1..Len(c) |-> IF c[i][1] = k THEN <<k, o>> ELSE c[i]]
    ELSE Append(c, <<k, o>>)

IdleLocals ==
    [fn |-> "idle", ts |-> 0, text |-> <<>>, message_chunks |-> <<>>,
     thread_lock |-> 0, chunk_timestamps |-> 0, response |-> 0,
     current_time |-> 0, iter |-> <<>>, idx |-> 0, dirty |-> FALSE,
     keys_to_remove |-> <<>>, cont |-> "", exc |-> "", calls |-> <<>>,
     full_text |-> <<>>, after |-> "", first |-> <<>>, before |-> <<>>,
     touched |-> <<>>, hist |-> FALSE, done |-> 0, max_length |-> 0]

Init ==
    /\ now = 0
    /\ slack = [i \in Ids |-> IF i = USER_TS THEN <<"a">> ELSE NOMSG]
    /\ nextTs = USER_TS + 1
    /\ wips = {}
    /\ cache = <<>>
    /\ heap = [o \in Objs |-> FREE]
    /\ pc = [t \in Threads |-> "idle"]
    /\ loc = [t \in Threads |-> IdleLocals]
    /\ finalized = {}

(***************************************************************************)
(* Steps of a thread                                                       *)
(***************************************************************************)
RECURSIVE Uniq(_, _)
\* the objects of a sequence of references, each once, in the order met
Uniq(refs, seen) ==
    IF refs = <<>> THEN seen
    ELSE IF Head(refs) = 0 \/ \E i \in 1..Len(seen) : seen[i] = Head(refs)
         THEN Uniq(Tail(refs), seen)
         ELSE Uniq(Tail(refs), Append(seen, Head(refs)))

\* The entry objects something still refers to: those of the registry, in its
\* order, then those the threads hold.  The others are garbage.
Live(c, l) ==
    Uniq([i \in 1..Len(c) |-> c[i][2]]
         \o <<l[1].thread_lock, l[1].chunk_timestamps,
              l[2].thread_lock, l[2].chunk_timestamps>>, <<>>)

\* ids at a non-last place of some list
NonLast(h) ==
    UNION {{h[o].timestamps[i] : i \in 1..(Len(h[o].timestamps) - 1)} : o \in Objs}

\* Thread t moves to npc with locals nlt, registry nc and objects nh.  mut:
\* the step inserted, deleted or moved a key, which every iterator over the
\* OrderedDict that has a next key notices at its next step.
Set(t, npc, nlt, nc, nh, mut) ==
    \* an object is a number that says nothing: the live objects are numbered
    \* 1, 2, ... in the order of Live, the garbage is dropped
    \E nl \in {[u \in Threads |->
                 IF u = t THEN nlt
                 ELSE IF mut /\ pc[u] = "c102" /\ loc[u].idx < Len(loc[u].iter)
                      THEN [loc[u] EXCEPT !.dirty = TRUE]
                      ELSE loc[u]]} :
    \E live \in {Live(nc, nl)} :
    \E name \in {[o \in Objs \cup {0} |->
                   IF \E i \in 1..Len(live) : live[i] = o
                   THEN CHOOSE i \in 1..Len(live) : live[i] = o ELSE 0]} :
        /\ pc' = [pc EXCEPT ![t] = npc]
        /\ loc' = [u \in Threads |->
                     [nl[u] EXCEPT !.thread_lock = name[@],
                                   !.chunk_timestamps = name[@]]]
        /\ cache' = [i \in 1..Len(nc) |-> <<nc[i][1], name[nc[i][2]]>>]
        /\ heap' = [o \in Objs |-> IF o <= Len(live) THEN nh[live[o]] ELSE FREE]
        /\ finalized' = finalized \cup NonLast(heap')

\* the locals that are left when the call has ended
Ended(l, response, exc) ==
    [IdleLocals EXCEPT !.fn = l.fn, !.ts = l.ts, !.text = l.text,
                       !.full_text = l.full_text,
                       !.after = l.after, !.first = l.first,
                       !.before = l.before, !.touched = l.touched,
                       !.hist = l.hist, !.done = l.done,
                       !.message_chunks = l.message_chunks,
                       !.response = response, !.exc = exc, !.calls = l.calls]

\* leaving the with block (line 270) releases the lock
Unlock(h, o) == [h EXCEPT ![o].locked = FALSE]

\* a slip: the exception leaves the with block and the lock stays held
RaiseLockedKept(t, exc, l) == Set(t, "exc", Ended(l, 0, exc), cache, heap, FALSE)

\* an exception leaves update_wip_message from inside the with block
RaiseLocked(t, exc, l) ==
    Set(t, "exc", Ended(l, 0, exc), cache, Unlock(heap, loc[t].thread_lock), FALSE)

\* an exception leaves the call outside the with block
Raise(t, exc, l) == Set(t, "exc", Ended(l, 0, exc), cache, heap, FALSE)

\* a step that touches neither Slack nor the clock
Local(t, npc, nlt, nc, nh, mut) ==
    /\ Set(t, npc, nlt, nc, nh, mut)
    /\ UNCHANGED <<now, slack, nextTs, wips>>

\* the smallest entry object that nothing refers to
FreeObj == CHOOSE o \in Objs : heap[o] = FREE

Key(t) == cache_key(CHANNEL, loc[t].ts)

\* lines 305: the text is a completed render
Completed(text) == ~EndsWith(text, HOURGLASS) /\ ~EndsWith(text, WAVE)

\* the external calls a call has issued so far, for the properties
Issued(l, op, ts, thread_ts, text, ok) ==
    [l EXCEPT !.calls = Append(l.calls,
        [op |-> op, ts |-> ts, thread_ts |-> thread_ts, text |-> text, ok |-> ok])]

(***************************************************************************)
(* update_wip_message(client, channel, ts, text, messages, user)           *)
(***************************************************************************)
\* the entry the registry holds for a key: its ids and its last_updated, <<>>
\* when it holds none
EntryOf(k) ==
    IF k \in Keys(cache)
    THEN <<heap[Obj(cache, k)].timestamps, heap[Obj(cache, k)].last_updated>>
    ELSE <<>>

\* a slip: the text goes on as it came, the lines 248-249 left out
EnteredAsGiven(ts, full_text, after, first, hist) ==
    [IdleLocals EXCEPT !.fn = "update", !.ts = ts,
        !.full_text = full_text, !.text = full_text,
        !.message_chunks = split_long_message(full_text, MaxLength),
        !.after = after, !.first = first,
        !.before = IF hist THEN EntryOf(cache_key(CHANNEL, ts)) ELSE <<>>]

\* lines 246-257: the substitution of an empty text, the chunks, the key.
\* hist: the call keeps, for the properties, the entry of the key as it finds
\* it (before).
Entered(ts, full_text, after, first, hist) ==
    LET text == IF full_text = <<>> \/ IsBlank(full_text)
                THEN PLACEHOLDER ELSE full_text
    IN  [IdleLocals EXCEPT !.fn = "update", !.ts = ts,
            !.full_text = full_text, !.text = text,
            !.message_chunks = split_long_message(text, MaxLength),
            !.after = after, !.first = first,
            !.before = IF hist THEN EntryOf(cache_key(CHANNEL, ts)) ELSE <<>>]

\* the thread is free: it is in no call (its last call has returned or raised)
Free(t) == pc[t] \in {"idle", "ret", "exc"}

\* touched, for the properties: the keys thread t has called update_wip_message
\* for, each once, the key of the latest call last.  A call that keeps a
\* history (hist) puts its key at the end, and notes in done the time at which
\* it runs the lines 309-311.
Touch(t, l, hist) ==
    LET k == cache_key(CHANNEL, l.ts)
    IN  [l EXCEPT !.hist = hist,
                  !.touched =
            IF hist THEN SelectSeq(loc[t].touched, LAMBDA j : j # k) \o <<k>>
            ELSE loc[t].touched]

\* line 260, after the local lines 246-257:
\* if cache_key not in _chunk_messages_cache
Enter(t, l) ==
    Local(t, IF cache_key(CHANNEL, l.ts) \notin Keys(cache) THEN "u261" ELSE "u268",
          l, cache, heap, FALSE)

\* a caller calls update_wip_message(ts, full_text) for one of the placeholders
UpdateCall(t, tss, texts, hist) ==
    /\ Free(t)
    /\ \E ts \in tss \cap wips, full_text \in texts :
          Enter(t, Touch(t, Entered(ts, full_text, "", <<>>, hist), hist))

\* a slip: the new entry is seeded with the message of the user
U261SeedsParent(t) ==
    /\ pc[t] = "u261"
    /\ Local(t, "u268", loc[t], Put(cache, Key(t), FreeObj),
             [heap EXCEPT ![FreeObj] = [timestamps |-> <<USER_TS>>,
                                        last_updated |-> now,
                                        locked |-> FALSE]],
             Key(t) \notin Keys(cache))

\* lines 261-265: _chunk_messages_cache[cache_key] = {...}, a new entry with a
\* new lock; a key that is there by now keeps its place and gets the new entry
U261(t) ==
    /\ pc[t] = "u261"
    /\ Local(t, "u268", loc[t], Put(cache, Key(t), FreeObj),
             [heap EXCEPT ![FreeObj] = [timestamps |-> <<loc[t].ts>>,
                                        last_updated |-> now,
                                        locked |-> FALSE]],
             Key(t) \notin Keys(cache))

\* line 268: move_to_end(cache_key); KeyError when the key is gone
U268(t) ==
    /\ pc[t] = "u268"
    /\ IF Key(t) \in Keys(cache)
       THEN Local(t, "u269", loc[t], MoveToEnd(cache, Key(t)), heap,
                  cache[Len(cache)][1] # Key(t))
       ELSE Raise(t, "KeyError", loc[t]) /\ UNCHANGED <<now, slack, nextTs, wips>>

\* line 269: thread_lock = _chunk_messages_cache[cache_key]["thread_lock"]
U269(t) ==
    /\ pc[t] = "u269"
    /\ IF Key(t) \in Keys(cache)
       THEN Local(t, "u270", [loc[t] EXCEPT !.thread_lock = Obj(cache, Key(t))],
                  cache, heap, FALSE)
       ELSE Raise(t, "KeyError", loc[t]) /\ UNCHANGED <<now, slack, nextTs, wips>>

\* a slip: one lock for the whole registry, the call waits until no entry is
\* locked
U270OneLock(t) ==
    /\ pc[t] = "u270"
    /\ \A o \in Objs : heap[o] # FREE => ~heap[o].locked
    /\ Local(t, "u271", loc[t], cache,
             [heap EXCEPT ![loc[t].thread_lock].locked = TRUE], FALSE)

\* line 270: with thread_lock: waits until the lock is free
U270(t) ==
    /\ pc[t] = "u270"
    /\ ~heap[loc[t].thread_lock].locked
    /\ Local(t, "u271", loc[t], cache,
             [heap EXCEPT ![loc[t].thread_lock].locked = TRUE], FALSE)

\* line 271: _chunk_messages_cache[cache_key]["last_updated"] = time.time()
U271(t) ==
    /\ pc[t] = "u271"
    /\ UNCHANGED <<now, slack, nextTs, wips>>
    /\ IF Key(t) \in Keys(cache)
       THEN Set(t, "u273", loc[t], cache,
                [heap EXCEPT ![Obj(cache, Key(t))].last_updated = now], FALSE)
       ELSE RaiseLocked(t, "KeyError", loc[t])

\* line 273: chunk_timestamps = _chunk_messages_cache[cache_key]["timestamps"]
U273(t) ==
    /\ pc[t] = "u273"
    /\ UNCHANGED <<now, slack, nextTs, wips>>
    /\ IF Key(t) \in Keys(cache)
       THEN Set(t, "u277", [loc[t] EXCEPT !.chunk_timestamps = Obj(cache, Key(t))],
                cache, heap, FALSE)
       ELSE RaiseLocked(t, "KeyError", loc[t])

\* the list chunk_timestamps refers to
Timestamps(t) == heap[loc[t].chunk_timestamps].timestamps

\* a slip: <= in the place of <
U277Grows(t) ==
    /\ pc[t] = "u277"
    /\ Local(t, IF Len(Timestamps(t)) <= Len(loc[t].message_chunks)
                THEN "u278" ELSE "u294",
             loc[t], cache, heap, FALSE)

\* line 277: if len(chunk_timestamps) < len(message_chunks)
U277(t) ==
    /\ pc[t] = "u277"
    /\ Local(t, IF Len(Timestamps(t)) < Len(loc[t].message_chunks)
                THEN "u278" ELSE "u294",
             loc[t], cache, heap, FALSE)

\* where the with block goes after the external calls: lines 305-311
AfterCalls(t) == IF Completed(loc[t].text) THEN "u308" ELSE "u312"

\* a slip: chat_update with ts=chunk_timestamps[0], the first message
ChatUpdateFirst(t, text, npc) ==
    LET id == Head(Timestamps(t))
    IN  \/ /\ slack' = [slack EXCEPT ![id] = text]
           /\ Set(t, npc,
                  [Issued(loc[t], "chat_update", id, 0, text, TRUE)
                      EXCEPT !.response = id],
                  cache, heap, FALSE)
           /\ UNCHANGED <<now, nextTs, wips>>
        \/ /\ RaiseLocked(t, "SlackApiError",
                          Issued(loc[t], "chat_update", id, 0, text, FALSE))
           /\ UNCHANGED <<now, slack, nextTs, wips>>

\* client.chat_update(channel, ts=chunk_timestamps[-1], text): Slack changes the
\* message, or the call fails and the exception leaves the with block
ChatUpdate(t, text, npc) ==
    LET id == Last(Timestamps(t))
    IN  \/ /\ slack' = [slack EXCEPT ![id] = text]
           /\ Set(t, npc,
                  [Issued(loc[t], "chat_update", id, 0, text, TRUE)
                      EXCEPT !.response = id],
                  cache, heap, FALSE)
           /\ UNCHANGED <<now, nextTs, wips>>
        \/ /\ RaiseLocked(t, "SlackApiError",
                          Issued(loc[t], "chat_update", id, 0, text, FALSE))
           /\ UNCHANGED <<now, slack, nextTs, wips>>

\* a slip: the last message is updated with the last chunk
U278LastChunk(t) ==
    /\ pc[t] = "u278"
    /\ ChatUpdate(t, Last(loc[t].message_chunks), "u287")

\* lines 278-286: chat_update of the last message with message_chunks[-2]
U278(t) ==
    /\ pc[t] = "u278"
    /\ ChatUpdate(t, loc[t].message_chunks[Len(loc[t].message_chunks) - 1], "u287")

\* a slip: a failure of chat_postMessage is swallowed, and line 292 records the
\* response at hand, that of chat_update
U287Swallowed(t) ==
    /\ pc[t] = "u287"
    /\ LET text == Last(loc[t].message_chunks)
       IN  \/ /\ nextTs <= MaxTs
              /\ slack' = [slack EXCEPT ![nextTs] = text]
              /\ nextTs' = nextTs + 1
              /\ Set(t, "u292",
                     [Issued(loc[t], "chat_postMessage", nextTs, loc[t].ts, text, TRUE)
                         EXCEPT !.response = nextTs],
                     cache, heap, FALSE)
              /\ UNCHANGED <<now, wips>>
           \/ /\ Set(t, "u292",
                     Issued(loc[t], "chat_postMessage", 0, loc[t].ts, text, FALSE),
                     cache, heap, FALSE)
              /\ UNCHANGED <<now, slack, nextTs, wips>>

\* lines 287-291: chat_postMessage(thread_ts=thread_ts, text=last_chunk)
U287(t) ==
    /\ pc[t] = "u287"
    /\ LET text == Last(loc[t].message_chunks)
       IN  \/ /\ nextTs <= MaxTs
              /\ slack' = [slack EXCEPT ![nextTs] = text]
              /\ nextTs' = nextTs + 1
              /\ Set(t, "u292",
                     [Issued(loc[t], "chat_postMessage", nextTs, loc[t].ts, text, TRUE)
                         EXCEPT !.response = nextTs],
                     cache, heap, FALSE)
              /\ UNCHANGED <<now, wips>>
           \/ /\ RaiseLocked(t, "SlackApiError",
                     Issued(loc[t], "chat_postMessage", 0, loc[t].ts, text, FALSE))
              /\ UNCHANGED <<now, slack, nextTs, wips>>

\* a slip: the new id takes the place of the last id of the list
U292Replaced(t) ==
    /\ pc[t] = "u292"
    /\ Local(t, AfterCalls(t), loc[t], cache,
             [heap EXCEPT ![loc[t].chunk_timestamps].timestamps =
                              [@ EXCEPT ![Len(@)] = loc[t].response]],
             FALSE)

\* line 292: chunk_timestamps.append(response["ts"])
U292(t) ==
    /\ pc[t] = "u292"
    /\ Local(t, AfterCalls(t), loc[t], cache,
             [heap EXCEPT ![loc[t].chunk_timestamps].timestamps =
                              Append(@, loc[t].response)],
             FALSE)

\* lines 294-302: chat_update of the last message with the last chunk
U294(t) ==
    /\ pc[t] = "u294"
    /\ ChatUpdate(t, Last(loc[t].message_chunks), AfterCalls(t))

\* line 308: if cache_key in _chunk_messages_cache
U308(t) ==
    /\ pc[t] = "u308"
    /\ Local(t, IF Key(t) \in Keys(cache) THEN "u309" ELSE "u312",
             loc[t], cache, heap, FALSE)

\* a slip: the completed render keeps the entry for the full TTL
U309FullTtl(t) ==
    /\ pc[t] = "u309"
    /\ UNCHANGED <<now, slack, nextTs, wips>>
    /\ IF Key(t) \in Keys(cache)
       THEN Set(t, "u312",
                [loc[t] EXCEPT !.done = IF loc[t].hist THEN now ELSE 0], cache,
                [heap EXCEPT ![Obj(cache, Key(t))].last_updated = now], FALSE)
       ELSE RaiseLocked(t, "KeyError", loc[t])

\* lines 309-311: last_updated = time.time() - _CACHE_TTL_SECONDS + 30
U309(t) ==
    /\ pc[t] = "u309"
    /\ UNCHANGED <<now, slack, nextTs, wips>>
    /\ IF Key(t) \in Keys(cache)
       THEN Set(t, "u312",
                [loc[t] EXCEPT !.done = IF loc[t].hist THEN now ELSE 0], cache,
                [heap EXCEPT ![Obj(cache, Key(t))].last_updated =
                                 now - CACHE_TTL_SECONDS + GRACE_SECONDS],
                FALSE)
       ELSE RaiseLocked(t, "KeyError", loc[t])

\* a slip: the with block ends and the lock stays locked
U312Kept(t) ==
    /\ pc[t] = "u312"
    /\ Local(t, "u314", loc[t], cache, heap, FALSE)

\* the end of the with block: the lock is released
U312(t) ==
    /\ pc[t] = "u312"
    /\ Local(t, "u314", loc[t], cache, Unlock(heap, loc[t].thread_lock), FALSE)

\* lines 314-317: clean up when the registry is more than half full, return
U314(t) ==
    /\ pc[t] = "u314"
    /\ IF Len(cache) > CACHE_MAX_SIZE \div 2
       THEN Local(t, "c98", [loc[t] EXCEPT !.cont = "ret"], cache, heap, FALSE)
       ELSE Local(t, "ret", Ended(loc[t], loc[t].response, ""), cache, heap, FALSE)

(***************************************************************************)
(* _cleanup_cache()                                                        *)
(***************************************************************************)
\* where _cleanup_cache goes when its for loop has ended: lines 106-107 when
\* there are keys to remove, else line 110
\* a slip: the lines 106-107 left out
AfterLoopSkips(keys_to_remove) == "c110"
AfterLoop(keys_to_remove) == IF keys_to_remove = <<>> THEN "c110" ELSE "c106"

\* lines 98-102: current_time = time.time(), keys_to_remove = [], and the
\* iterator over the items; over an empty registry the loop ends at once
C98(t) ==
    /\ pc[t] = "c98"
    /\ Local(t, IF cache = <<>> THEN "c110" ELSE "c102",
             [loc[t] EXCEPT !.current_time = now,
                            !.keys_to_remove = <<>>, !.idx = 0, !.dirty = FALSE,
                            !.iter = [i \in 1..Len(cache) |-> cache[i][1]]],
             cache, heap, FALSE)

\* lines 102-104: one turn of the for loop.  The iterator has a next key: it
\* raises RuntimeError when the OrderedDict has been mutated since it was made,
\* and else yields the key and its value.  After the last key the loop ends.
C102(t) ==
    /\ pc[t] = "c102"
    /\ UNCHANGED <<now, slack, nextTs, wips>>
    /\ LET l == loc[t]
       IN  IF l.dirty
           THEN Raise(t, "RuntimeError", l)
           ELSE LET key == l.iter[l.idx + 1]
                    value == heap[Obj(cache, key)]
                    keys_to_remove ==
                        IF l.current_time - value.last_updated > CACHE_TTL_SECONDS
                        THEN Append(l.keys_to_remove, key) ELSE l.keys_to_remove
                IN  IF l.idx + 1 < Len(l.iter)
                    THEN Set(t, "c102",
                             [l EXCEPT !.idx = l.idx + 1,
                                       !.keys_to_remove = keys_to_remove],
                             cache, heap, FALSE)
                    ELSE Set(t, AfterLoop(keys_to_remove),
                             [l EXCEPT !.idx = 0, !.iter = <<>>,
                                       !.keys_to_remove = keys_to_remove],
                             cache, heap, FALSE)

\* lines 106-107: del _chunk_messages_cache[key], one key per step
C106(t) ==
    /\ pc[t] = "c106"
    /\ UNCHANGED <<now, slack, nextTs, wips>>
    /\ LET l == loc[t]
       IN  IF Head(l.keys_to_remove) \in Keys(cache)
           THEN Set(t, AfterLoop(Tail(l.keys_to_remove)),
                    [l EXCEPT !.keys_to_remove = Tail(@)],
                    Del(cache, Head(l.keys_to_remove)), heap, TRUE)
           ELSE Raise(t, "KeyError", l)

\* lines 110-111: popitem(last=False) while the registry is over its size; then
\* back to the caller
C110(t) ==
    /\ pc[t] = "c110"
    /\ LET l == loc[t]
       IN  IF Len(cache) > CACHE_MAX_SIZE
           THEN Local(t, "c110", l, Tail(cache), heap, TRUE)
           ELSE IF l.cont = "ret"
           THEN Local(t, "ret", Ended(l, l.response, ""), cache, heap, FALSE)
           ELSE Local(t, l.cont, [l EXCEPT !.cont = ""], cache, heap, FALSE)

(***************************************************************************)
(* post_wip_message(client, channel, thread_ts, loading_text, messages, user) *)
(***************************************************************************)
\* lines 123-125: the call; thread_ts is a message of the channel, one of tss
PostCall(t, tss) ==
    /\ Free(t)
    /\ \E thread_ts \in tss \cap ({USER_TS} \cup wips) :
          Local(t, "p126",
                [IdleLocals EXCEPT !.fn = "post", !.ts = thread_ts,
                                   !.text = LOADING_TEXT,
                                   !.touched = loc[t].touched],
                cache, heap, FALSE)

\* line 126: if cache_key in _chunk_messages_cache
P126(t) ==
    /\ pc[t] = "p126"
    /\ IF Key(t) \in Keys(cache)
       THEN Local(t, "p127", loc[t], cache, heap, FALSE)
       ELSE Local(t, "c98", [loc[t] EXCEPT !.cont = "p132"], cache, heap, FALSE)

\* line 127: del _chunk_messages_cache[cache_key]; then line 130
P127(t) ==
    /\ pc[t] = "p127"
    /\ UNCHANGED <<now, slack, nextTs, wips>>
    /\ IF Key(t) \in Keys(cache)
       THEN Set(t, "c98", [loc[t] EXCEPT !.cont = "p132"],
                Del(cache, Key(t)), heap, TRUE)
       ELSE Raise(t, "KeyError", loc[t])

\* a slip: the placeholder that has been posted is registered as the first id
\* of an entry of its own
P132Registered(t) ==
    /\ pc[t] = "p132"
    /\ LET l == loc[t]
       IN  \/ /\ nextTs <= MaxTs
              /\ slack' = [slack EXCEPT ![nextTs] = l.text]
              /\ nextTs' = nextTs + 1
              /\ wips' = wips \cup {nextTs}
              /\ Set(t, "ret",
                     Ended(Issued(l, "chat_postMessage", nextTs, l.ts, l.text, TRUE),
                           nextTs, ""),
                     Put(cache, cache_key(CHANNEL, nextTs), FreeObj),
                     [heap EXCEPT ![FreeObj] = [timestamps |-> <<nextTs>>,
                                                last_updated |-> now,
                                                locked |-> FALSE]],
                     TRUE)
              /\ UNCHANGED now
           \/ /\ Raise(t, "SlackApiError",
                       Issued(l, "chat_postMessage", 0, l.ts, l.text, FALSE))
              /\ UNCHANGED <<now, slack, nextTs, wips>>

\* lines 132-140: return client.chat_postMessage(thread_ts, text=loading_text)
P132(t) ==
    /\ pc[t] = "p132"
    /\ LET l == loc[t]
       IN  \/ /\ nextTs <= MaxTs
              /\ slack' = [slack EXCEPT ![nextTs] = l.text]
              /\ nextTs' = nextTs + 1
              /\ wips' = wips \cup {nextTs}
              /\ Set(t, "ret",
                     Ended(Issued(l, "chat_postMessage", nextTs, l.ts, l.text, TRUE),
                           nextTs, ""),
                     cache, heap, FALSE)
              /\ UNCHANGED now
           \/ /\ Raise(t, "SlackApiError",
                       Issued(l, "chat_postMessage", 0, l.ts, l.text, FALSE))
              /\ UNCHANGED <<now, slack, nextTs, wips>>

(***************************************************************************)
(* The callers and the clock                                               *)
(***************************************************************************)
\* the ids the registry holds for a key, <<>> when it holds none
IdsOf(k) == IF k \in Keys(cache) THEN heap[Obj(cache, k)].timestamps ELSE <<>>

\* The caller repeats the update_wip_message call that has just returned, with
\* the same text.  first: the ids and the messages as the first call left them.
Repeat(t) ==
    /\ pc[t] = "ret"
    /\ loc[t].fn = "update"
    /\ loc[t].after = ""
    /\ Enter(t, Touch(t, Entered(loc[t].ts, loc[t].full_text, "same",
                                  <<IdsOf(Key(t)), slack>>, TRUE), TRUE))

\* The caller, whose update_wip_message call failed in Slack, calls again with
\* the text as it is by then.
Retry(t, texts) ==
    /\ pc[t] = "exc"
    /\ loc[t].fn = "update"
    /\ loc[t].exc = "SlackApiError"
    /\ loc[t].after \in {"", "failed"}
    /\ \E full_text \in texts :
          Enter(t, Touch(t, Entered(loc[t].ts, full_text, "failed", <<>>, TRUE),
                         TRUE))

\* time passes
Tick(step) ==
    /\ now < MaxTime
    /\ now' = now + step
    /\ UNCHANGED <<slack, nextTs, wips, cache, heap, pc, loc, finalized>>

\* one step of update_wip_message
UpdateStep(t) ==
    \/ U261(t) \/ U268(t) \/ U269(t) \/ U270(t) \/ U271(t)
    \/ U273(t) \/ U277(t) \/ U278(t) \/ U287(t) \/ U292(t) \/ U294(t)
    \/ U308(t) \/ U309(t) \/ U312(t) \/ U314(t)

\* one step of _cleanup_cache
CleanupStep(t) == C98(t) \/ C102(t) \/ C106(t) \/ C110(t)

\* one step of post_wip_message
PostStep(t) == P126(t) \/ P127(t) \/ P132(t)

\* The threads are interchangeable: of two free threads the lower one takes the
\* next call.
MayCall(t) == \A u \in Threads : u < t => ~Free(u)

\* Two threads call post_wip_message and update_wip_message concurrently, for
\* the first conversation.
Next ==
    \/ Tick(LongStep)
    \/ \E t \in Threads :
          \/ MayCall(t) /\ PostCall(t, ConcTss)
          \/ MayCall(t) /\ UpdateCall(t, ConcTss, ConcTexts, FALSE)
          \/ PostStep(t) \/ UpdateStep(t) \/ CleanupStep(t)

Spec == Init /\ [][Next]_vars

\* One thread makes the calls one after the other, for any of the
\* conversations.
NextSeq ==
    \/ Tick(TickStep)
    \/ PostCall(1, SeqTss) \/ UpdateCall(1, SeqTss, SeqTexts, TRUE)
    \/ PostStep(1) \/ UpdateStep(1) \/ CleanupStep(1)
    \/ Repeat(1) \/ Retry(1, SeqTexts)

SpecSeq == Init /\ [][NextSeq]_vars

\* One thread makes the calls one after the other, for as many conversations
\* as there are messages: more than the registry holds.
NextLru ==
    \/ Tick(LongStep)
    \/ PostCall(1, LruTss) \/ UpdateCall(1, LruTss, LruTexts, TRUE)
    \/ PostStep(1) \/ UpdateStep(1) \/ CleanupStep(1)

SpecLru == Init /\ [][NextLru]_vars

\* text b is text a with more at its end
Grows(a, b) == Len(b) > Len(a) /\ SubSeq(b, 1, Len(a)) = a

\* The caller streams a reply: it calls update_wip_message for the first
\* placeholder with a text that has grown since its last call.
GrowCall(t) ==
    /\ Free(t)
    /\ \E ts \in {USER_TS + 1} \cap wips, full_text \in GrowTexts :
          /\ loc[t].fn = "update" => Grows(loc[t].full_text, full_text)
          /\ Enter(t, Touch(t, Entered(ts, full_text, "", <<>>, FALSE), FALSE))

\* Thread 1 streams one reply with a growing text; between its calls time
\* passes and thread 2 posts placeholders for messages of users.
NextGrow ==
    \/ Tick(TickStep)
    \/ Free(1) /\ PostCall(2, {USER_TS})
    \/ Free(2) /\ GrowCall(1)
    \/ \E t \in Threads : P126(t) \/ P132(t) \/ UpdateStep(t) \/ CleanupStep(t)

SpecGrow == Init /\ [][NextGrow]_vars

\* Thread 1 makes update_wip_message calls for the first placeholder, the last
\* ones of a reply; between its calls a little time passes and thread 2 posts
\* placeholders for messages of users, which runs _cleanup_cache.
NextGrace ==
    \/ now < ShortTime /\ Tick(ShortStep)
    \/ Free(1) /\ PostCall(2, {USER_TS})
    \/ Free(2) /\ UpdateCall(1, {USER_TS + 1}, GraceTexts, TRUE)
    \/ \E t \in Threads : P126(t) \/ P132(t) \/ UpdateStep(t) \/ CleanupStep(t)

SpecGrace == Init /\ [][NextGrace]_vars

\* Two conversations, one thread each.  Thread 1 posts the two placeholders;
\* then thread t makes the update_wip_message calls of the t-th placeholder.
\* Thread 2 goes on whenever it can (its Slack calls come back and the
\* scheduler runs a thread that is not waiting); thread 1 may stay for ever
\* where it is, inside a Slack call for one.
PairCall(t) ==
    /\ Cardinality(wips) = 2
    /\ UpdateCall(t, {USER_TS + t}, PairTexts, FALSE)

PairStep(t) == UpdateStep(t) \/ C98(t) \/ C102(t) \/ C110(t)

NextPair ==
    \/ Cardinality(wips) < 2 /\ PostCall(1, {USER_TS})
    \/ P126(1) \/ P132(1)
    \/ \E t \in Threads : PairCall(t) \/ PairStep(t)

SpecPair == Init /\ [][NextPair]_vars /\ WF_vars(PairStep(2))

\* One thread posts placeholders and streams texts that are all within the
\* byte cap, one call after the other, while time passes.  The steps of lines
\* 278-292 are not among the steps of these runs.
ShortStepOf(t) ==
    \/ U261(t) \/ U268(t) \/ U269(t) \/ U270(t) \/ U271(t) \/ U273(t)
    \/ U277(t) \/ U294(t) \/ U308(t) \/ U309(t) \/ U312(t) \/ U314(t)

NextShort ==
    \/ Tick(TickStep)
    \/ PostCall(1, SeqTss) \/ UpdateCall(1, SeqTss, ShortTexts, TRUE)
    \/ PostStep(1) \/ ShortStepOf(1) \/ CleanupStep(1)

SpecShort == Init /\ [][NextShort]_vars

\* Two threads call post_wip_message and update_wip_message concurrently for
\* the first conversation, the clock stands still.  A call that has begun goes
\* on: the scheduler runs every thread that can take a step again and again, a
\* thread that waits for a lock gets it when it is free again and again, and
\* every Slack call comes back or fails.  Nothing makes a caller call, and the
\* callers call post_wip_message only while Slack has given fewer than two ids.
LiveStep(t) ==
    \/ PostStep(t) \/ UpdateStep(t) \/ C98(t) \/ C102(t) \/ C110(t)

NextLive ==
    \E t \in Threads :
        \/ MayCall(t) /\ nextTs <= USER_TS + 2 /\ PostCall(t, ConcTss)
        \/ MayCall(t) /\ UpdateCall(t, ConcTss, ConcTexts, FALSE)
        \/ LiveStep(t)

SpecLive ==
    Init /\ [][NextLive]_vars /\ \A t \in Threads : SF_vars(LiveStep(t))

(***************************************************************************)
(* split_long_message alone                                                *)
(***************************************************************************)
\* the pieces of the texts: a letter, a word of four letters, a space, a line
\* break, a fence and a character of three bytes
SplitTokens == {<<"a">>, A4, <<SP>>, <<NL>>, FENCE, <<WIDE>>}

RECURSIVE Flatten(_)
Flatten(ss) == IF ss = <<>> THEN <<>> ELSE Head(ss) \o Flatten(Tail(ss))

SplitTexts ==
    {Flatten(toks) : toks \in UNION {[1..n -> SplitTokens] : n \in 0..MaxTokens}}

\* the values of max_length: the scaled default, and one that leaves room for
\* the widest character in the byte splitting of lines 185-200
SplitLengths == {MaxLength, MaxLength + 2}

\* a caller is about to call split_long_message(text, max_length)
InitSplit ==
    /\ now = 0
    /\ slack = [i \in Ids |-> IF i = USER_TS THEN <<"a">> ELSE NOMSG]
    /\ nextTs = USER_TS + 1
    /\ wips = {}
    /\ cache = <<>>
    /\ heap = [o \in Objs |-> FREE]
    /\ pc = [t \in Threads |-> IF t = 1 THEN "s154" ELSE "idle"]
    /\ \E text \in SplitTexts, max_length \in SplitLengths :
          loc = [t \in Threads |->
                   IF t = 1
                   THEN [IdleLocals EXCEPT !.fn = "split", !.text = text,
                                           !.max_length = max_length]
                   ELSE IdleLocals]
    /\ finalized = {}

\* lines 143-235: the call returns the chunks, or never returns
S154(t) ==
    /\ pc[t] = "s154"
    /\ \E chunks \in {split_long_message(loc[t].text, loc[t].max_length)} :
          IF chunks = DIVERGES
          THEN pc' = [pc EXCEPT ![t] = "s186"] /\ UNCHANGED loc
          ELSE /\ pc' = [pc EXCEPT ![t] = "s235"]
               /\ loc' = [loc EXCEPT ![t].message_chunks = chunks]
    /\ UNCHANGED <<now, slack, nextTs, wips, cache, heap, finalized>>

NextSplit == S154(1)

SpecSplit == InitSplit /\ [][NextSplit]_vars

(***************************************************************************)
(* Properties                                                              *)
(***************************************************************************)
\* the thread is inside the external section of update_wip_message: it is
\* about to run, or is between, the Slack calls of lines 277-302
InFlight(t) == pc[t] \in {"u278", "u287", "u294"}

\* C1: no two update_wip_message calls for the same conversation key are inside
\* their external chat_update/chat_postMessage section at the same time,
\* whatever the interleaving with lazy creation, post_wip_message and
\* _cleanup_cache.
C1_OneUpdateInFlight ==
    \A t, u \in Threads :
        t # u /\ InFlight(t) /\ InFlight(u) => Key(t) # Key(u)

\* the call of thread t has returned from update_wip_message
Returned(t) == pc[t] = "ret" /\ loc[t].fn = "update"

\* every chunk of the text thread t has rendered is on display: the registry
\* holds an id for every index of message_chunks and the message of the i-th id
\* shows the i-th chunk
Shown(t) ==
    LET ids == IdsOf(Key(t))
        chunks == loc[t].message_chunks
    IN  \A i \in 1..Len(chunks) : i <= Len(ids) /\ slack[ids[i]] = chunks[i]

\* C2: after a successful update_wip_message, whatever the chunk counts of the
\* texts so far, the message of the i-th id of the conversation shows the i-th
\* chunk of the text just rendered, and no chunk is missing.
C2_IdsShowChunks == Returned(1) => Shown(1)

\* C3: a second update_wip_message call with the identical text leaves the ids
\* and the content of every message as the first call left them, and posts no
\* message.
C3_Idempotent ==
    Returned(1) /\ loc[1].after = "same" =>
        /\ <<IdsOf(Key(1)), slack>> = loc[1].first
        /\ \A i \in 1..Len(loc[1].calls) : loc[1].calls[i].op # "chat_postMessage"

\* the thread is inside the with block of line 270 and holds thread_lock
InWith(t) ==
    pc[t] \in {"u271", "u273", "u277", "u278", "u287", "u292", "u294",
               "u308", "u309", "u312"}

\* C4: a guard is held only by a call that is inside its with block.  A call
\* that a failed chat_update or chat_postMessage has left holds no guard, so
\* a later update_wip_message on the key finds the guard free or held by a call
\* that is still running.
C4_GuardReleased ==
    \A o \in Objs :
        heap[o].locked => \E t \in Threads : InWith(t) /\ loc[t].thread_lock = o

\* C4, reached: a Slack call of one update_wip_message has failed, and another
\* call on the same key holds the guard of the entry
C4_FailedThenAcquired ==
    \E t, u \in Threads :
        /\ pc[t] = "exc" /\ loc[t].fn = "update" /\ loc[t].exc = "SlackApiError"
        /\ pc[u] = "u271" /\ Key(u) = Key(t)
        /\ Key(u) \in Keys(cache) /\ loc[u].thread_lock = Obj(cache, Key(u))
        /\ heap[loc[u].thread_lock].locked

\* a chat_update or chat_postMessage of the last update_wip_message call of
\* thread t has failed
SlackFailed(t) ==
    /\ loc[t].fn = "update"
    /\ \E i \in 1..Len(loc[t].calls) : ~loc[t].calls[i].ok

\* C5 as the specification states it: when a Slack call of update_wip_message
\* has failed, the entry of the conversation (its ids and its last_updated, or
\* its absence) is what it was before the call.
C5_TrackerUnchanged == SlackFailed(1) => EntryOf(Key(1)) = loc[1].before

\* C5, amended: when a Slack call of update_wip_message has failed, the error
\* has left the call to the caller and the call has appended no id: the ids of
\* the conversation are those from before the call, or <<ts>> when the call has
\* created the entry.
C5_NoIdAppended ==
    SlackFailed(1) =>
        /\ pc[1] = "exc" /\ loc[1].exc = "SlackApiError"
        /\ IdsOf(Key(1)) = IF loc[1].before = <<>> THEN <<loc[1].ts>>
                            ELSE loc[1].before[1]

\* C5, reached: the chat_update of the old last message has succeeded, the
\* chat_postMessage of the new chunk has failed, on an entry that was there
C5_PostFailedAfterUpdate ==
    /\ pc[1] = "exc" /\ SlackFailed(1)
    /\ Len(loc[1].calls) = 2 /\ loc[1].calls[1].ok
    /\ loc[1].calls[2].op = "chat_postMessage"
    /\ loc[1].before # <<>>

\* C6: after failed update_wip_message calls on a conversation, the next call
\* that succeeds, with the text as it is by then, leaves the tracked messages
\* showing, in order, exactly the chunks of that text.
C6_CatchUp == Returned(1) /\ loc[1].after = "failed" => Shown(1)

\* the keys of the conversations
AllKeys == {cache_key(CHANNEL, ts) : ts \in Ids}

\* line 103: the entry of key k is older than the TTL
Expired(k) == now - heap[Obj(cache, k)].last_updated > CACHE_TTL_SECONDS

\* C7 as the specification states it: while the entry of a conversation has
\* not expired, no step of post_wip_message, update_wip_message or
\* _cleanup_cache makes its list of ids shorter.
C7_LengthNeverDecreases ==
    [][\A k \in AllKeys :
          k \in Keys(cache) /\ ~Expired(k) => Len(IdsOf(k)') >= Len(IdsOf(k))]_vars

\* C7, amended: a step leaves the ids of a conversation as they are, or
\* appends one id to them, or removes the entry, or makes the entry anew with
\* the ids <<ts>>.  No step takes an id out of a list or changes one.
C7_OnlyAppended ==
    [][\A k \in AllKeys :
          \/ IdsOf(k)' = IdsOf(k)
          \/ IdsOf(k)' = <<>>
          \/ IdsOf(k)' = <<k[2]>>
          \/ /\ Len(IdsOf(k)') = Len(IdsOf(k)) + 1
             /\ SubSeq(IdsOf(k)', 1, Len(IdsOf(k))) = IdsOf(k)]_vars

\* C7, reached: _cleanup_cache is at line 110 with the registry over its size,
\* and the entry popitem removes next has not expired
C7_EvictsUnexpired ==
    /\ pc[1] = "c110" /\ Len(cache) > CACHE_MAX_SIZE
    /\ ~Expired(cache[1][1])

\* the step issues a chat_update from thread t
IssuesChatUpdate(t) ==
    /\ Len(loc[t].calls') = Len(loc[t].calls) + 1
    /\ Last(loc[t].calls').op = "chat_update"

\* C8 as the specification states it: while the text of a conversation grows
\* from call to call, no call issues chat_update for an id that has been
\* finalized, that is, has been at a non-last place of the ids.
C8_FinalizedNeverUpdated ==
    [][\A t \in Threads :
          IssuesChatUpdate(t) => Last(loc[t].calls').ts \notin finalized]_vars

\* C8, amended: while the text of a conversation grows from call to call, no
\* call issues chat_update for an id that is at a non-last place of the ids
\* that are tracked at that time.
C8_TrackedNonLastNeverUpdated ==
    [][\A t \in Threads :
          IssuesChatUpdate(t) => Last(loc[t].calls').ts \notin NonLast(heap)]_vars

\* C8, reached: the text has grown to three chunks, the conversation tracks two
\* ids, the first of them finalized, and the call is about to issue chat_update
C8_UpdatesAfterFinalizing ==
    /\ pc[1] = "u278" /\ loc[1].full_text = T3
    /\ Len(Timestamps(1)) = 2 /\ Head(Timestamps(1)) \in finalized

\* C9: every chat_update and chat_postMessage that update_wip_message issues
\* carries a text that is not empty, and the text is the processing
\* placeholder when the full_text of the call is empty or all whitespace.
C9_NeverEmptyText ==
    loc[1].fn = "update" =>
        \A i \in 1..Len(loc[1].calls) :
            /\ loc[1].calls[i].text # <<>>
            /\ loc[1].full_text = <<>> \/ IsBlank(loc[1].full_text)
                  => loc[1].calls[i].text = PLACEHOLDER

\* C9, reached: a call with an all-whitespace text has returned, and the
\* message shows the processing placeholder
C9_BlankShownAsPlaceholder ==
    /\ Returned(1) /\ loc[1].full_text = <<SP>>
    /\ Len(loc[1].calls) = 1 /\ loc[1].calls[1].ok
    /\ slack[loc[1].calls[1].ts] = PLACEHOLDER

\* the call of thread t has returned from post_wip_message with the id of the
\* placeholder it has posted
Posted(t) == pc[t] = "ret" /\ loc[t].fn = "post"

\* C10 as the specification states it: when post_wip_message has returned, the
\* registry holds an entry for the conversation, under the key of thread_ts
\* or of the placeholder, whose ids are exactly the id of the placeholder.
C10_PlaceholderRegistered ==
    Posted(1) =>
        \/ IdsOf(cache_key(CHANNEL, loc[1].ts)) = <<loc[1].response>>
        \/ IdsOf(cache_key(CHANNEL, loc[1].response)) = <<loc[1].response>>

\* C10, amended: when post_wip_message has returned, the placeholder is
\* posted and the registry holds no entry for the conversation, neither under
\* the key of thread_ts nor under that of the placeholder.
C10_NothingRegistered ==
    Posted(1) =>
        /\ slack[loc[1].response] = LOADING_TEXT
        /\ cache_key(CHANNEL, loc[1].ts) \notin Keys(cache)
        /\ cache_key(CHANNEL, loc[1].response) \notin Keys(cache)

\* C10, reached: post_wip_message has returned for a message whose entry an
\* earlier update_wip_message had made, and the registry is empty
C10_PostedAndCleared ==
    /\ Posted(1) /\ loc[1].ts \in wips /\ now = 0
    /\ finalized # {} /\ cache = <<>>

\* the place of key k in the sequence of keys s, 0 when it is not there
Place(s, k) ==
    IF \E i \in 1..Len(s) : s[i] = k
    THEN CHOOSE i \in 1..Len(s) : s[i] = k ELSE 0

\* the step is a popitem of line 111 by thread t
Pops(t) == pc[t] = "c110" /\ Len(cache') < Len(cache)

\* C11: when the registry holds more than _CACHE_MAX_SIZE keys, the entry that
\* line 111 removes is the one whose latest update_wip_message call is the
\* oldest: every key that stays has been touched by a later call.
C11_EvictsLeastRecentlyTouched ==
    [][Pops(1) =>
          \E k \in Keys(cache) \ Keys(cache') :
              /\ Keys(cache') = Keys(cache) \ {k}
              /\ \A j \in Keys(cache') :
                     Place(loc[1].touched, k) < Place(loc[1].touched, j)]_vars

\* C11, reached: the call has found its key in the registry and moved it to
\* the most recent end; its _cleanup_cache is at line 110 with the registry
\* over its size, about to remove another key, which was inserted later
C11_PromotedKeyOutlives ==
    /\ pc[1] = "c110" /\ Len(cache) > CACHE_MAX_SIZE
    /\ loc[1].fn = "update" /\ loc[1].before # <<>>
    /\ cache[Len(cache)][1] = Key(1)
    /\ cache[1][1][2] > Key(1)[2]

\* the step is the lookup of line 260 by a call of thread t that starts
Looks(t) ==
    /\ Free(t) /\ ~Free(t)' /\ loc[t].fn' = "update"

\* C12: a lookup by update_wip_message of a key whose entry is older than the
\* TTL treats the key as absent: the call goes to lines 261-265 and starts
\* from a fresh entry with the ids <<ts>>.
C12_ExpiredTreatedAbsent ==
    [][Looks(1) /\ Key(1)' \in Keys(cache) /\ Expired(Key(1)')
          => pc[1]' = "u261"]_vars

\* the last update_wip_message call of thread t has returned, and its text was
\* a completed render
Completes(t) == Returned(t) /\ Completed(loc[t].text)

\* C13: after update_wip_message has returned for a completed render, the
\* entry is in the registry as long as no more than 30 seconds have passed; a
\* _cleanup_cache that starts more than 30 seconds after the render removes
\* it; and an update_wip_message that finds the entry works on the ids it
\* held, with no second entry in the registry.
C13_GraceWindow ==
    /\ Completes(1) /\ now - loc[1].done <= GRACE_SECONDS
          => Key(1) \in Keys(cache)
    /\ Completes(1) /\ pc[2] = "p132"
                    /\ loc[2].current_time - loc[1].done > GRACE_SECONDS
          => Key(1) \notin Keys(cache)
    /\ pc[1] = "u277" /\ loc[1].before # <<>>
          => Timestamps(1) = loc[1].before[1] /\ Len(cache) = 1

\* C13, reached: a _cleanup_cache that started after the completed render, and
\* no more than 30 seconds after it, has run and the entry is in the registry
C13_KeptInsideGrace ==
    /\ Completes(1) /\ pc[2] = "p132"
    /\ loc[2].current_time > loc[1].done
    /\ loc[2].current_time - loc[1].done <= GRACE_SECONDS
    /\ Key(1) \in Keys(cache)

\* thread t is at a Slack call of update_wip_message, inside the with block
Blocked(t) == pc[t] \in {"u278", "u287", "u294"}

\* thread t has just called update_wip_message
Starts(t) == pc[t] \in {"u261", "u268"} /\ loc[t].fn = "update"

\* C14: when update_wip_message starts for one conversation while the call for
\* another conversation is at a Slack call inside its with block, then, for as
\* long as that call stays there, the new call goes on: it ends, returning
\* unless one of its own Slack calls fails.
C14_OtherKeyReturns ==
    (Blocked(1) /\ Starts(2) /\ Key(1) # Key(2))
        ~> (\/ Returned(2)
            \/ pc[2] = "exc" /\ loc[2].exc = "SlackApiError"
            \/ ~Blocked(1))

\* C14, reached: both calls are at a Slack call, each holds the lock of its own
\* entry
C14_BothInsideTheirGuards ==
    /\ Blocked(1) /\ Blocked(2) /\ Key(1) # Key(2)
    /\ heap[loc[1].thread_lock].locked /\ heap[loc[2].thread_lock].locked
    /\ loc[1].thread_lock # loc[2].thread_lock

\* thread t is in the for loop of _cleanup_cache, its iterator has a next key
Iterating(t) == pc[t] = "c102" /\ loc[t].idx < Len(loc[t].iter)

\* C15 as the specification states it: no thread inserts, deletes or moves a
\* key of the registry while another thread is iterating over it.
C15_NoMutationWhileIterating ==
    \A t \in Threads : Iterating(t) => ~loc[t].dirty

\* the call of thread t has raised KeyError
MissingKey(t) == pc[t] = "exc" /\ loc[t].exc = "KeyError"

\* C16 as the specification states it: update_wip_message never raises for a
\* key that is missing from the registry, whatever post_wip_message and
\* _cleanup_cache do in other threads.
C16_NeverKeyError ==
    \A t \in Threads : loc[t].fn = "update" => ~MissingKey(t)

\* split_long_message(text, max_length) of thread t has returned
Split(t) == pc[t] = "s235" /\ loc[t].fn = "split"

\* C17: a text of at most max_length bytes, the empty text and a text of
\* spaces and line breaks included, comes back as the one chunk [text].
C17_ShortTextUnchanged ==
    Split(1) /\ ByteLen(loc[1].text) <= loc[1].max_length
        => loc[1].message_chunks = <<loc[1].text>>

\* C17, reached: a text of spaces and line breaks has come back as one chunk
C17_BlankTextReturned ==
    /\ Split(1)
    /\ loc[1].text # <<>> /\ IsBlank(loc[1].text)
    /\ loc[1].message_chunks = <<loc[1].text>>

RECURSIVE CountFences(_)
\* s.count(code_block_delimiter): the fences of s, from left to right
CountFences(s) ==
    IF Len(s) < 3 THEN 0
    ELSE IF SubSeq(s, 1, 3) = FENCE
         THEN 1 + CountFences(SubSeq(s, 4, Len(s)))
         ELSE CountFences(Tail(s))

\* the text holds fenced code blocks: every backtick is part of a line that is
\* a fence and nothing else, and these lines come in pairs
Fenced(text) ==
    LET lines == StrSplit(text, NL)
    IN  /\ \A i \in 1..Len(lines) :
              Contains(lines[i], TICK) => lines[i] = FENCE
        /\ CountFences(text) > 0
        /\ CountFences(text) % 2 = 0

\* C18 as the specification states it: every chunk of a text that holds
\* fenced code blocks has an even number of fences.
C18_EvenFences ==
    Split(1) /\ Fenced(loc[1].text)
        => \A i \in 1..Len(loc[1].message_chunks) :
              CountFences(loc[1].message_chunks[i]) % 2 = 0

\* the chunk is one unit: it holds no space and no line break to cut it at
OneUnit(chunk) == ~Contains(chunk, SP) /\ ~Contains(chunk, NL)

\* C19 as the specification states it: every chunk has at most max_length
\* bytes, unless it is one unit without a space or a line break.
C19_ByteCap ==
    Split(1) => \A i \in 1..Len(loc[1].message_chunks) :
                   \/ ByteLen(loc[1].message_chunks[i]) <= loc[1].max_length
                   \/ OneUnit(loc[1].message_chunks[i])

\* the words of s: the pieces between spaces and line breaks that are not empty
Words(s) ==
    LET lines == StrSplit(s, NL)
    IN  UNION {{StrSplit(lines[i], SP)[j] : j \in 1..Len(StrSplit(lines[i], SP))}
               : i \in 1..Len(lines)} \ {<<>>}

\* the words of the chunks thread t has got
ChunkWords(t) ==
    UNION {Words(loc[t].message_chunks[i]) : i \in 1..Len(loc[t].message_chunks)}

DOTS == <<".", ".", ".">>

StartsWith(s, p) == Len(s) >= Len(p) /\ SubSeq(s, 1, Len(p)) = p

EndsWithSeq(s, p) == Len(s) >= Len(p) /\ SubSeq(s, Len(s) - Len(p) + 1, Len(s)) = p

\* the text has neither a line break nor a space and is longer than max_length:
\* the call has gone through the byte splitting of lines 185-200
ByteSplit(t) ==
    /\ Split(t)
    /\ ~Contains(loc[t].text, NL) /\ ~Contains(loc[t].text, SP)
    /\ ByteLen(loc[t].text) > loc[t].max_length

\* C21 as the specification states it: of the chunks of a text without line
\* break and space, every chunk but the last ends with "..." and every chunk
\* but the first begins with "...".
C21_ContinuationMarkers ==
    ByteSplit(1) =>
        LET chunks == loc[1].message_chunks
        IN  /\ \A i \in 1..(Len(chunks) - 1) : EndsWithSeq(chunks[i], DOTS)
            /\ \A i \in 2..Len(chunks) : StartsWith(chunks[i], DOTS)

\* C22: in a sequence of update_wip_message calls whose texts are all within
\* the byte cap, the registry never holds another id than the root id, no call
\* comes to the lines 278-292, every Slack call is a chat_update of the root
\* message with the whole text of the call, and a call that has ended has
\* issued exactly one.
C22_OneIdForShortTexts ==
    /\ pc[1] \notin {"u278", "u287", "u292"}
    /\ \A k \in Keys(cache) : IdsOf(k) = <<k[2]>>
    /\ loc[1].fn = "update" =>
          /\ \A i \in 1..Len(loc[1].calls) :
                /\ loc[1].calls[i].op = "chat_update"
                /\ loc[1].calls[i].ts = loc[1].ts
                /\ loc[1].calls[i].text = loc[1].text
          /\ Free(1) => Len(loc[1].calls) = 1

\* C22, reached: a later call of the sequence has returned, the entry it found
\* held the root id and the root message shows its text
C22_LaterCallReplacedText ==
    /\ Returned(1) /\ loc[1].before # <<>>
    /\ loc[1].before[1] = <<loc[1].ts>>
    /\ Len(loc[1].calls) = 1 /\ loc[1].calls[1].ok
    /\ slack[loc[1].ts] = loc[1].text
    /\ IdsOf(Key(1)) = <<loc[1].ts>>

\* the ids the call of thread t has found, or has made, for its key: those of
\* the entry that was there, [ts] of lines 261-265 when there was none
IdsFound(t) == IF loc[t].before = <<>> THEN <<loc[t].ts>> ELSE loc[t].before[1]

\* the call of thread t has found fewer ids than it has chunks (line 277)
Fewer(t) ==
    /\ loc[t].fn = "update" /\ loc[t].hist
    /\ Len(IdsFound(t)) < Len(loc[t].message_chunks)

\* C23: a call that finds fewer ids than chunks issues, in this order, a
\* chat_update of the last id it found with the second-to-last chunk and, only
\* when that has succeeded, one chat_postMessage of the last chunk in the
\* thread of ts, and nothing else; when it returns the ids are those it found
\* and, after them, the one new id the post has returned.
C23_UpdateThenPostThenAppend ==
    Fewer(1) =>
        LET calls == loc[1].calls
            chunks == loc[1].message_chunks
        IN  /\ Len(calls) <= 2
            /\ Len(calls) >= 1 =>
                  /\ calls[1].op = "chat_update"
                  /\ calls[1].ts = Last(IdsFound(1))
                  /\ calls[1].text = chunks[Len(chunks) - 1]
            /\ Len(calls) = 2 =>
                  /\ calls[1].ok
                  /\ calls[2].op = "chat_postMessage"
                  /\ calls[2].thread_ts = loc[1].ts
                  /\ calls[2].text = Last(chunks)
            /\ Returned(1) =>
                  /\ Len(calls) = 2 /\ calls[2].ok
                  /\ \A i \in 1..Len(IdsFound(1)) : IdsFound(1)[i] # calls[2].ts
                  /\ IdsOf(Key(1)) = Append(IdsFound(1), calls[2].ts)

\* C23, reached: the text of a conversation with one id has grown over the
\* cap, and the call has returned with a second id
C23_GrownByOneId ==
    /\ Fewer(1) /\ Returned(1)
    /\ loc[1].before # <<>> /\ Len(IdsFound(1)) = 1
    /\ Len(IdsOf(Key(1))) = 2

\* C24 as the specification states it: when no post_wip_message and no
\* update_wip_message call is in progress, the registry holds at most
\* _CACHE_MAX_SIZE entries.
C24_CapacityBound ==
    (\A t \in Threads : Free(t)) => Len(cache) <= CACHE_MAX_SIZE

\* no id is twice in the list
Distinct(ids) == \A i, j \in 1..Len(ids) : ids[i] = ids[j] => i = j

\* C25: the list of ids of every entry of the registry is not empty, starts
\* with the ts of its key and holds no id twice.
C25_RootFirstNoDuplicates ==
    \A k \in Keys(cache) :
        /\ IdsOf(k) # <<>>
        /\ IdsOf(k)[1] = k[2]
        /\ Distinct(IdsOf(k))

\* C25, reached: two calls have each appended an id to the entry of one
\* conversation
C25_TwoAppended ==
    \E k \in Keys(cache) : Len(IdsOf(k)) = 3 /\ IdsOf(k)[1] = k[2]

\* thread t is in _cleanup_cache
InCleanup(t) == pc[t] \in {"c98", "c102", "c106", "c110"}

\* the keys of the registry in their order
KeySeq(c) == [i \in 1..Len(c) |-> c[i][1]]

\* C26: a step of _cleanup_cache adds no key and leaves every entry that stays
\* as it is, its ids, its last_updated and its place among those that stay; a
\* key is removed only by lines 106-107 when its entry is older than the TTL
\* at the time the cleanup started, or by line 111 when the registry holds
\* more than _CACHE_MAX_SIZE entries; and when lines 106-107 are done no entry
\* older than the TTL is left.
C26_CleanupFrame ==
    [][InCleanup(1) =>
        /\ KeySeq(cache') =
              SelectSeq(KeySeq(cache), LAMBDA k : k \in Keys(cache'))
        /\ \A k \in Keys(cache') : EntryOf(k)' = EntryOf(k)
        /\ \A k \in Keys(cache) \ Keys(cache') :
              \/ /\ pc[1] = "c106"
                 /\ loc[1].current_time - heap[Obj(cache, k)].last_updated
                        > CACHE_TTL_SECONDS
              \/ pc[1] = "c110" /\ Len(cache) > CACHE_MAX_SIZE
        /\ pc[1] # "c110" /\ pc'[1] = "c110" =>
              \A k \in Keys(cache') :
                  loc'[1].current_time - EntryOf(k)'[2] <= CACHE_TTL_SECONDS]_vars

\* C26, reached: lines 106-107 are about to remove the expired entries, an
\* entry that has not expired is in the registry, and what stays is within
\* _CACHE_MAX_SIZE
C26_ExpiredAmongFresh ==
    /\ pc[1] = "c106" /\ loc[1].keys_to_remove # <<>>
    /\ \E k \in Keys(cache) :
          /\ \A i \in 1..Len(loc[1].keys_to_remove) : loc[1].keys_to_remove[i] # k
          /\ loc[1].current_time - EntryOf(k)[2] <= CACHE_TTL_SECONDS
    /\ Len(cache) - Len(loc[1].keys_to_remove) <= CACHE_MAX_SIZE

\* C27 as the specification states it: split_long_message returns for every
\* text and every max_length; the loop of lines 189-200 is never without
\* progress.
C27_AlwaysReturns == pc[1] # "s186"

RECURSIVE JoinWith(_, _, _)
\* the chunks from the i-th on, with seps[j] between the j-th and the next
JoinWith(chunks, seps, i) ==
    IF i > Len(chunks) THEN <<>>
    ELSE IF i = Len(chunks) THEN chunks[i]
    ELSE chunks[i] \o <<seps[i]>> \o JoinWith(chunks, seps, i + 1)

\* the chunks, joined with one space or line break at each boundary, are the
\* text
Rejoins(chunks, text) ==
    \E seps \in [1..(Len(chunks) - 1) -> {SP, NL}] :
        JoinWith(chunks, seps, 1) = text

\* C28 as the specification states it, for the texts without a backtick (their
\* chunks hold no synthetic fence): the chunks joined with the separator that
\* was consumed at each boundary are the text, and no chunk of a text without
\* line break holds a line break.
C28_ReproducesInput ==
    Split(1) /\ ~Contains(loc[1].text, TICK) =>
        /\ Rejoins(loc[1].message_chunks, loc[1].text)
        /\ ~Contains(loc[1].text, NL) =>
              \A i \in 1..Len(loc[1].message_chunks) :
                  ~Contains(loc[1].message_chunks[i], NL)

\* the entry whose lock thread t holds is the one the registry holds for the
\* key of the call
Held(t) ==
    /\ InWith(t)
    /\ Key(t) \in Keys(cache)
    /\ Obj(cache, Key(t)) = loc[t].thread_lock

\* C29 as the specification states it: no step of post_wip_message or
\* _cleanup_cache in another thread takes the entry out of the registry while
\* update_wip_message holds its lock.
C29_HeldEntryStays ==
    [][\A t, u \in Threads :
          /\ t # u /\ Held(t) /\ pc'[t] = pc[t]
          /\ pc[u] \in {"p127", "c106", "c110"}
          => Held(t)']_vars

\* the locks that are locked
LockedObjs == {o \in Objs : heap[o].locked}

\* C30: the threads inside a with block hold different locks and there are as
\* many locked locks as threads inside a with block, so no thread holds two;
\* and every call of post_wip_message and update_wip_message that has begun
\* returns or raises.
C30_EveryCallEnds ==
    /\ [](/\ \A t, u \in Threads :
               InWith(t) /\ InWith(u) /\ t # u
                   => loc[t].thread_lock # loc[u].thread_lock
          /\ Cardinality(LockedObjs) = Cardinality({t \in Threads : InWith(t)}))
    /\ \A t \in Threads : ~Free(t) ~> Free(t)

\* C30, reached: a call waits at line 270 for the lock that the call of the
\* other thread holds
C30_WaitsForGuard ==
    \E t, u \in Threads :
        /\ pc[t] = "u270" /\ InWith(u)
        /\ loc[t].thread_lock = loc[u].thread_lock
        /\ heap[loc[t].thread_lock].locked

====
